---- MODULE Spec2Model ----
(***************************************************************************)
(* Tenant dashboard provisioning (src/script.js) over the mapping store    *)
(* (src/models/DashboardMapping.js) and the remote BI service.             *)
(*                                                                         *)
(* Every request is a process; every await of the handler is one step of   *)
(* that process, so that requests interleave exactly at the awaits.        *)
(***************************************************************************)
EXTENDS Integers, Sequences, FiniteSets, TLC

\* ------------------------------------------------------------------ bounds

\* Requests of one behaviour (one process per request).
MaxCalls == 3
\* Requests of one behaviour that may overlap in time.
MaxOverlap == 2
\* Store or remote calls that fail in one behaviour.
MaxFailures == 1
\* Seconds the clock advances in one behaviour.
MaxClock == 1

\* --------------------------------------------------------------- constants

TEMPLATE_GROUP_ID == 269
main_folder_id == 162
ALL_USERS_GROUP_ID == 1

Procs == 1..MaxCalls

\* ------------------------------------------------- JavaScript values (ids)

\* A JavaScript value as it can arrive in req.body.project_id.  Numbers are
\* kept as integer part i and fraction digits f (no trailing zero), strings
\* as their characters s.
JsUndefined == [k |-> "undefined", i |-> 0, f |-> <<>>, s |-> <<>>]
JsNull == [k |-> "null", i |-> 0, f |-> <<>>, s |-> <<>>]
JsNaN == [k |-> "NaN", i |-> 0, f |-> <<>>, s |-> <<>>]
JsNumber(i, f) == [k |-> "number", i |-> i, f |-> f, s |-> <<>>]
JsString(s) == [k |-> "string", i |-> 0, f |-> <<>>, s |-> s]

Digits == {"0", "1", "2", "3", "4", "5", "6", "7", "8", "9"}

DigitVal(c) ==
    CASE c = "0" -> 0 [] c = "1" -> 1 [] c = "2" -> 2 [] c = "3" -> 3
      [] c = "4" -> 4 [] c = "5" -> 5 [] c = "6" -> 6 [] c = "7" -> 7
      [] c = "8" -> 8 [] c = "9" -> 9

DigitChar(n) ==
    CASE n = 0 -> "0" [] n = 1 -> "1" [] n = 2 -> "2" [] n = 3 -> "3"
      [] n = 4 -> "4" [] n = 5 -> "5" [] n = 6 -> "6" [] n = 7 -> "7"
      [] n = 8 -> "8" [] n = 9 -> "9"

RECURSIVE TrimLeft(_)
TrimLeft(s) == IF s # <<>> /\ Head(s) = " " THEN TrimLeft(Tail(s)) ELSE s

RECURSIVE TrimRight(_)
TrimRight(s) ==
    IF s # <<>> /\ s[Len(s)] = " " THEN TrimRight(SubSeq(s, 1, Len(s) - 1)) ELSE s

RECURSIVE DropTrailingZeros(_)
DropTrailingZeros(s) ==
    IF s # <<>> /\ s[Len(s)] = "0"
    THEN DropTrailingZeros(SubSeq(s, 1, Len(s) - 1)) ELSE s

RECURSIVE DigitsValue(_, _)
DigitsValue(s, acc) ==
    IF s = <<>> THEN acc ELSE DigitsValue(Tail(s), 10 * acc + DigitVal(Head(s)))

AllDigits(s) == \A n \in 1..Len(s) : s[n] \in Digits

DotAt(s) == IF \E n \in 1..Len(s) : s[n] = "."
            THEN CHOOSE n \in 1..Len(s) : s[n] = "." /\ \A m \in 1..(n - 1) : s[m] # "."
            ELSE 0

\* Number(<string>): StringToNumber of the language.  White space is
\* trimmed, the empty string is 0, an unsigned decimal literal is its value
\* and every other text is NaN.
StringToNumber(s) ==
    LET t == TrimRight(TrimLeft(s))
        d == DotAt(t)
        ip == IF d = 0 THEN t ELSE SubSeq(t, 1, d - 1)
        fp == IF d = 0 THEN <<>> ELSE SubSeq(t, d + 1, Len(t))
    IN  IF t = <<>> THEN JsNumber(0, <<>>)
        ELSE IF AllDigits(ip) /\ AllDigits(fp) /\ (ip # <<>> \/ fp # <<>>)
        THEN JsNumber(DigitsValue(ip, 0), DropTrailingZeros(fp))
        ELSE JsNaN

\* Number(v), as called on the project id.
ToNumber(v) ==
    CASE v.k = "undefined" -> JsNaN
      [] v.k = "null" -> JsNumber(0, <<>>)
      [] v.k = "string" -> StringToNumber(v.s)
      [] OTHER -> v

isNaN(n) == n.k = "NaN"

RECURSIVE NatToChars(_)
NatToChars(n) ==
    IF n < 10 THEN <<DigitChar(n)>> ELSE NatToChars(n \div 10) \o <<DigitChar(n % 10)>>

\* `${v}` for a number.
NumberToString(n) ==
    IF isNaN(n) THEN <<"N", "a", "N">>
    ELSE NatToChars(n.i) \o (IF n.f = <<>> THEN <<>> ELSE <<".">> \o n.f)

\* `${v}` for any value.
JsToString(v) ==
    CASE v.k = "undefined" -> <<"undefined">>
      [] v.k = "null" -> <<"null">>
      [] v.k = "string" -> v.s
      [] OTHER -> NumberToString(v)

\* What `v || w` tests: undefined, null, NaN, 0 and "" are falsy.
Truthy(v) ==
    CASE v.k \in {"undefined", "null", "NaN"} -> FALSE
      [] v.k = "string" -> v.s # <<>>
      [] OTHER -> ~(v.i = 0 /\ v.f = <<>>)

\* ----------------------------------------------------- static configuration

\* CONFIG_MAP: module name -> templateId.
CONFIG_MAP == [Sales |-> 71, Marketing |-> 176, Operations |-> 106]

\* Property names every plain object inherits from Object.prototype; the
\* model keeps one of them.
ObjectPrototypeKeys == {"constructor"}

\* Module names a request can carry ("" is an absent field).
ModuleNames == {"Sales", "Marketing", "Operations", "Billing", "Management", "constructor"}

\* The value of a property read that finds an inherited function.
InheritedFunction == -1

\* CONFIG_MAP[moduleName]: an own entry, an inherited property, or undefined.
\* truthy is what `if (!config)` tests, templateId is config.templateId
\* (0 when undefined).
ConfigLookup(m) ==
    IF m \in DOMAIN CONFIG_MAP THEN [truthy |-> TRUE, templateId |-> CONFIG_MAP[m]]
    ELSE IF m \in ObjectPrototypeKeys THEN [truthy |-> TRUE, templateId |-> 0]
    ELSE [truthy |-> FALSE, templateId |-> 0]

\* module_name || dashboard_type || 'Management' of the two routes.
ModuleToUse(module_name, dashboard_type) ==
    IF module_name # "" THEN module_name
    ELSE IF dashboard_type # "" THEN dashboard_type
    ELSE "Management"

\* ------------------------------------------------------------ mapping store

\* The paths dashboardMappingSchema declares.  The schema is strict (the
\* default): an update to any other path is dropped, and a document read
\* exposes no other path.
\* (Variants: a schema that also declares folderId, one that lacks dashboardId.)
SchemaPathsWithFolder == {"projectId", "dashboardId", "createdAt", "updatedAt", "folderId"}
SchemaPathsWithoutDashboard == {"projectId", "createdAt", "updatedAt"}
SchemaPaths == {"projectId", "dashboardId", "createdAt", "updatedAt"}

EmptyObject == [m \in ModuleNames |-> 0]

\* A stored document.  folderId and groupId are 0 when the document has no
\* such field; dashboardId[m] is 0 when the object has no own property m.
NewDocument(pid) ==
    [projectId |-> pid, dashboardId |-> EmptyObject, folderId |-> 0, groupId |-> 0]

\* One field assignment of an update: path "folderId", "groupId", or
\* "dashboardId" with sub = "" (the whole object) or sub = m (dashboardId.m).
SetOp(path, sub, val) == [path |-> path, sub |-> sub, val |-> val]

\* The cast of an update against the schema: assignments to undeclared
\* paths are removed.
CastUpdate(ops) == {o \in ops : o.path \in SchemaPaths}

HasOp(ops, path, sub) == \E o \in ops : o.path = path /\ o.sub = sub
OpVal(ops, path, sub) == (CHOOSE o \in ops : o.path = path /\ o.sub = sub).val

\* (Variant: an assignment to dashboardId.m that replaces the whole object.)
ApplySetReplacingObject(doc, ops) ==
    [projectId |-> doc.projectId,
     folderId |-> IF HasOp(ops, "folderId", "") THEN OpVal(ops, "folderId", "") ELSE doc.folderId,
     groupId |-> IF HasOp(ops, "groupId", "") THEN OpVal(ops, "groupId", "") ELSE doc.groupId,
     dashboardId |->
        IF \E o \in ops : o.path = "dashboardId"
        THEN [m \in ModuleNames |->
                IF HasOp(ops, "dashboardId", m) THEN OpVal(ops, "dashboardId", m) ELSE 0]
        ELSE doc.dashboardId]

\* (Variant: an assignment to dashboardId.m that keeps an id that is there.)
ApplySetKeepingFirst(doc, ops) ==
    [projectId |-> doc.projectId,
     folderId |-> IF HasOp(ops, "folderId", "") THEN OpVal(ops, "folderId", "") ELSE doc.folderId,
     groupId |-> IF HasOp(ops, "groupId", "") THEN OpVal(ops, "groupId", "") ELSE doc.groupId,
     dashboardId |->
        IF HasOp(ops, "dashboardId", "") THEN EmptyObject
        ELSE [m \in ModuleNames |->
                IF HasOp(ops, "dashboardId", m) /\ doc.dashboardId[m] = 0
                THEN OpVal(ops, "dashboardId", m)
                ELSE doc.dashboardId[m]]]

\* $set / $setOnInsert applied to a document: each assignment changes its
\* own path only; "dashboardId.m" changes one property of the object.
ApplySet(doc, ops) ==
    [projectId |-> doc.projectId,
     folderId |-> IF HasOp(ops, "folderId", "") THEN OpVal(ops, "folderId", "") ELSE doc.folderId,
     groupId |-> IF HasOp(ops, "groupId", "") THEN OpVal(ops, "groupId", "") ELSE doc.groupId,
     dashboardId |->
        IF HasOp(ops, "dashboardId", "") THEN EmptyObject
        ELSE [m \in ModuleNames |->
                IF HasOp(ops, "dashboardId", m) THEN OpVal(ops, "dashboardId", m)
                ELSE doc.dashboardId[m]]]

\* Index of the first document with this projectId, 0 when there is none.
FindIndex(docs, pid) ==
    IF \E n \in 1..Len(docs) : docs[n].projectId = pid
    THEN CHOOSE n \in 1..Len(docs) :
            docs[n].projectId = pid /\ \A m \in 1..(n - 1) : docs[m].projectId # pid
    ELSE 0

\* mapping?.<path> of a document read: undeclared paths read as undefined.
ReadPath(docs, n, path) ==
    IF n = 0 \/ path \notin SchemaPaths THEN 0 ELSE docs[n][path]

\* mapping?.dashboardId?.[moduleName]: own property, else inherited one.
ReadDashboard(docs, n, m) ==
    IF n = 0 THEN 0
    ELSE IF docs[n].dashboardId[m] # 0 THEN docs[n].dashboardId[m]
    ELSE IF m \in ObjectPrototypeKeys THEN InheritedFunction
    ELSE 0

\* (Variant: an insert where the upsert is.)
InsertAlways(docs, pid, setOps, insertOps) ==
    Append(docs, ApplySet(ApplySet(NewDocument(pid), CastUpdate(insertOps)), CastUpdate(setOps)))

\* findOneAndUpdate(filter, {$set, $setOnInsert}, {upsert: true}): one
\* atomic store operation.
FindOneAndUpdate(docs, pid, setOps, insertOps) ==
    LET n == FindIndex(docs, pid)
    IN  IF n # 0 THEN [docs EXCEPT ![n] = ApplySet(@, CastUpdate(setOps))]
        ELSE Append(docs,
                    ApplySet(ApplySet(NewDocument(pid), CastUpdate(insertOps)),
                             CastUpdate(setOps)))

\* findOneAndDelete(filter): the first document with this projectId goes.
FindOneAndDelete(docs, pid) ==
    LET n == FindIndex(docs, pid)
    IN  IF n = 0 THEN docs
        ELSE SubSeq(docs, 1, n - 1) \o SubSeq(docs, n + 1, Len(docs))

\* find({}).sort({createdAt: -1}) and the route's map: the newest document
\* first, each with the fields the route reads from it.
ListOf(docs) ==
    [n \in 1..Len(docs) |->
        LET k == Len(docs) + 1 - n
        IN  [projectId |-> docs[k].projectId,
             folderId |-> ReadPath(docs, k, "folderId"),
             groupId |-> ReadPath(docs, k, "groupId"),
             dashboards |-> docs[k].dashboardId]]

\* ------------------------------------------------------- remote BI service

\* Ids the remote service can hand out to groups and collections in one
\* behaviour: it numbers each kind of resource from its own counter.
GroupIdSpace ==
    {ALL_USERS_GROUP_ID, TEMPLATE_GROUP_ID}
        \cup ((TEMPLATE_GROUP_ID + 1)..(TEMPLATE_GROUP_ID + MaxCalls))
CollectionIdSpace == (main_folder_id + 1)..(main_folder_id + MaxCalls)

\* `Tenant_${projectId}` and `Project ${projectId}`.
GroupName(projectId) == <<"Tenant_">> \o NumberToString(projectId)
CollectionName(projectId) == <<"Project ">> \o NumberToString(projectId)

\* (Variant: a find that takes the first group of the list, whatever its name.)
FindGroupFirst(list, name) == IF list = <<>> THEN 0 ELSE list[1].id

\* (Variant: a find that finds no group.)
FindGroupNever(list, name) == 0

\* groups.find((g) => g.name === groupName): the id of the first group of
\* that name in the list, 0 when there is none.
FindGroup(list, name) ==
    IF \E n \in 1..Len(list) : list[n].name = name
    THEN list[CHOOSE n \in 1..Len(list) :
                list[n].name = name /\ \A m \in 1..(n - 1) : list[m].name # name].id
    ELSE 0

\* The data permission graph: groups[g] is the permission subtree of group
\* g, 0 when the graph has no entry for g.
NoDataGraph == [g \in GroupIdSpace |-> 0]

\* (Variant: a clone that sends the template's and the target's slot only.)
CloneOnlySlot(graph, target) ==
    [NoDataGraph EXCEPT ![TEMPLATE_GROUP_ID] = graph[TEMPLATE_GROUP_ID],
                        ![target] = graph[TEMPLATE_GROUP_ID]]

\* groups[targetKey] = JSON.parse(JSON.stringify(template)).
CloneIntoSlot(graph, target) == [graph EXCEPT ![target] = graph[TEMPLATE_GROUP_ID]]

\* The collection permission graph: the groups it has an entry for, and the
\* permission of each (group, collection) pair it lists.
NoCollectionGraph == [groups |-> {}, perms |-> {}]

SetPermission(graph, g, c, perm) ==
    [groups |-> graph.groups \cup {g},
     perms |-> {e \in graph.perms : ~(e.g = g /\ e.c = c)}
                  \cup {[g |-> g, c |-> c, perm |-> perm]}]

\* The graph setCollectionPermissions writes back for what it read: the
\* grant, and the revocation when the graph has an entry for group '1' (the
\* search for an entry whose .name is 'All Users' finds none: an entry maps
\* collection ids to permissions).
WithCollectionPermissions(graph, collectionId, groupId) ==
    LET granted == SetPermission(graph, groupId, collectionId, "write")
    IN  IF ALL_USERS_GROUP_ID \in granted.groups
        THEN SetPermission(granted, ALL_USERS_GROUP_ID, collectionId, "none")
        ELSE granted

\* allGtaps.filter((gtap) => gtap.group_id === g), in id order.
RECURSIVE SetToSeq(_)
SetToSeq(S) ==
    IF S = {} THEN <<>>
    ELSE LET x == CHOOSE y \in S : \A z \in S : y.id <= z.id
         IN  <<x>> \o SetToSeq(S \ {x})

GtapsOf(all, g) == SetToSeq({r \in all : r.group_id = g})

\* ------------------------------------------------------------------- state

VARIABLES
    store,        \* the documents of the mapping collection, in insertion order
    groups,       \* remote permission groups, in creation order
    collections,  \* remote collections
    dashboards,   \* remote dashboard copies
    dataGraph,    \* remote data permission graph
    collGraph,    \* remote collection permission graph
    gtaps,        \* remote sandbox rules
    nextId,       \* the remote service's id counters
    pc,           \* the await each request is at
    req,          \* the body of each request
    loc,          \* the local variables of each request
    res,          \* the outcome of each request
    calls,        \* how often each request issued each store or remote call
    seen,         \* what each request's two store reads found
    folderSets,   \* the {folderId, groupId} assignments the folder upserts issued
    failures,     \* the calls that failed so far
    route,        \* the route each request came in by
    tokens,       \* the token each request was answered with
    listing,      \* the mappings each request was answered with
    now           \* the server's clock, in seconds

vars == <<store, groups, collections, dashboards, dataGraph, collGraph, gtaps,
          nextId, pc, req, loc, res, calls, seen, folderSets, failures,
          route, tokens, listing, now>>

history == <<seen, folderSets, failures>>

remote == <<groups, collections, dashboards, dataGraph, collGraph, gtaps, nextId>>

answers == <<tokens, listing>>

\* The awaits of a resolve, in program order.
StoreReads == {"findMapping", "findFolder", "findToDelete", "listMappings"}
StoreWrites == {"saveFolder", "saveDashboard", "deleteMapping"}
SandboxCalls == {"listGtaps", "deleteGtap", "createGtap"}
FolderCalls ==
    {"listGroups", "createGroup", "getDataGraph", "putDataGraph",
     "createCollection", "getCollGraph", "putCollGraph"} \cup SandboxCalls
RemoteCalls == FolderCalls \cup {"copyDashboard"}
Awaits == StoreReads \cup StoreWrites \cup RemoteCalls

NoRequest == [project_id |-> JsUndefined, module_name |-> "", dashboard_type |-> ""]
NoLocals ==
    [pid |-> JsNaN, moduleName |-> "", templateId |-> 0, groupId |-> 0, folderId |-> 0,
     newDashboardId |-> 0, graph |-> NoDataGraph, cgraph |-> NoCollectionGraph,
     toDelete |-> <<>>, toClone |-> <<>>]
NoResult == [status |-> "none", value |-> 0, error |-> ""]
NoCalls == [a \in Awaits |-> 0]
\* entry: the dashboard entry resolveDashboardId's read found (0: none);
\* folderSet: whether a folder upsert for the tenant had run before
\* getOrCreateProjectFolder's read; rules: the target group's sandbox rules
\* in cloneSandboxingRules' listing.
NothingSeen == [entry |-> 0, folderSet |-> FALSE, rules |-> {}]

Ok(v) == [status |-> "ok", value |-> v, error |-> ""]
Error(e) == [status |-> "error", value |-> 0, error |-> e]

InFlight == {p \in Procs : pc[p] \notin {"idle", "done"}}

\* expiresIn: '24h', in the seconds jwt.sign adds to iat.
EXPIRES_IN == 86400

NoToken ==
    [email |-> JsUndefined, first_name |-> JsUndefined, last_name |-> JsUndefined,
     groups |-> <<>>, project_id |-> JsUndefined, email_id |-> JsUndefined,
     iat |-> 0, exp |-> 0]

\* (Variant: a signToken without the two fallbacks.)
signTokenWithoutFallback(projectId, email_id, user) ==
    [email |-> email_id, first_name |-> user.first_name, last_name |-> user.last_name,
     groups |-> << <<"Tenant_">> \o JsToString(projectId) >>,
     project_id |-> projectId, email_id |-> email_id,
     iat |-> now, exp |-> now + EXPIRES_IN]

\* signToken: the payload, and the iat and exp claims jwt.sign adds.
signToken(projectId, email_id, user) ==
    [email |-> email_id,
     first_name |-> IF Truthy(user.first_name) THEN user.first_name
                    ELSE JsString(<<"U", "s", "e", "r">>),
     last_name |-> IF Truthy(user.last_name) THEN user.last_name
                   ELSE JsString(<<"S", "o", "f", "f", "r", "o", "n", "t">>),
     groups |-> << <<"Tenant_">> \o JsToString(projectId) >>,
     project_id |-> projectId,
     email_id |-> email_id,
     iat |-> now,
     exp |-> now + EXPIRES_IN]

\* The sandbox rule of the template group the service starts with.
TemplateGtap ==
    [id |-> 1, group_id |-> TEMPLATE_GROUP_ID, table_id |-> 5, card_id |-> 9,
     attribute_remappings |-> "project_id"]

Init ==
    /\ store = <<>>
    /\ groups = <<>>
    /\ collections = <<>>
    /\ dashboards = <<>>
    /\ dataGraph = [g \in GroupIdSpace |->
                      IF g = TEMPLATE_GROUP_ID THEN 2
                      ELSE IF g = ALL_USERS_GROUP_ID THEN 1 ELSE 0]
    /\ collGraph = [groups |-> {ALL_USERS_GROUP_ID}, perms |-> {}]
    /\ gtaps = {TemplateGtap}
    /\ nextId = [group |-> TEMPLATE_GROUP_ID + 1, collection |-> main_folder_id + 1,
                 dashboard |-> 1, gtap |-> 2]
    /\ pc = [p \in Procs |-> "idle"]
    /\ req = [p \in Procs |-> NoRequest]
    /\ loc = [p \in Procs |-> NoLocals]
    /\ res = [p \in Procs |-> NoResult]
    /\ calls = [p \in Procs |-> NoCalls]
    /\ seen = [p \in Procs |-> NothingSeen]
    /\ folderSets = {}
    /\ failures = 0
    /\ route = [p \in Procs |-> ""]
    /\ tokens = [p \in Procs |-> NoToken]
    /\ listing = [p \in Procs |-> <<>>]
    /\ now = 0

\* Remote states the service can find when it starts: the template group
\* with no, one or two sandbox rules, with or without an entry in the data
\* permission graph; no tenant group, the group of tenant 8 from an earlier
\* run (with or without the rule cloned onto it then), or the template group
\* itself carrying the name of tenant 8's group; the collection permission
\* graph with or without an entry for group '1'.
SecondTemplateGtap ==
    [id |-> 2, group_id |-> TEMPLATE_GROUP_ID, table_id |-> 6, card_id |-> 0,
     attribute_remappings |-> "project_id"]
EarlierGroup == [id |-> TEMPLATE_GROUP_ID + 1, name |-> GroupName(JsNumber(8, <<>>))]
EarlierGtap == [TemplateGtap EXCEPT !.id = 3, !.group_id = EarlierGroup.id]
RemoteStates ==
    {r \in [groups : {<<>>, <<EarlierGroup>>,
                      <<[EarlierGroup EXCEPT !.id = TEMPLATE_GROUP_ID]>>},
            templateGtaps : {{}, {TemplateGtap}, {TemplateGtap, SecondTemplateGtap}},
            earlierGtaps : {{}, {EarlierGtap}},
            template : {0, 2},
            collGroups : {{ALL_USERS_GROUP_ID}, {TEMPLATE_GROUP_ID}}] :
        r.earlierGtaps # {} => r.groups = <<EarlierGroup>>}

InitClone ==
    /\ store = <<>>
    /\ collections = <<>>
    /\ dashboards = <<>>
    /\ \E r \in RemoteStates :
          /\ groups = r.groups
          /\ gtaps = r.templateGtaps \cup r.earlierGtaps
          /\ dataGraph = [g \in GroupIdSpace |->
                            IF g = TEMPLATE_GROUP_ID THEN r.template
                            ELSE IF g = ALL_USERS_GROUP_ID THEN 1
                            ELSE IF g = EarlierGroup.id /\ r.groups = <<EarlierGroup>> THEN 3
                            ELSE 0]
          /\ collGraph = [groups |-> r.collGroups, perms |-> {}]
    /\ nextId = [group |-> TEMPLATE_GROUP_ID + 2, collection |-> main_folder_id + 1,
                 dashboard |-> 1, gtap |-> 4]
    /\ pc = [p \in Procs |-> "idle"]
    /\ req = [p \in Procs |-> NoRequest]
    /\ loc = [p \in Procs |-> NoLocals]
    /\ res = [p \in Procs |-> NoResult]
    /\ calls = [p \in Procs |-> NoCalls]
    /\ seen = [p \in Procs |-> NothingSeen]
    /\ folderSets = {}
    /\ failures = 0
    /\ route = [p \in Procs |-> ""]
    /\ tokens = [p \in Procs |-> NoToken]
    /\ listing = [p \in Procs |-> <<>>]
    /\ now = 0

\* ----------------------------------------------------------------- actions

Issued(p, a) == [calls EXCEPT ![p][a] = @ + 1]

\* What a finished request keeps of its locals.
Kept(l) == [NoLocals EXCEPT !.pid = l.pid, !.moduleName = l.moduleName]

\* The bodies requests carry.
TenantIds == {JsString(<<"0", "7">>), JsNumber(8, <<>>)}
Bodies ==
    [project_id : TenantIds, module_name : {"Sales", "Marketing"}, dashboard_type : {""}]

\* POST /api/dashboard-id up to its first await: the module default, then
\* resolveDashboardId's Number() and isNaN test.
Start(p, body) ==
    /\ pc[p] = "idle"
    /\ \A q \in Procs : q < p => pc[q] # "idle"
    /\ LET moduleName == ModuleToUse(body.module_name, body.dashboard_type)
           pid == ToNumber(body.project_id)
       IN  /\ req' = [req EXCEPT ![p] = body]
           /\ route' = [route EXCEPT ![p] = "/api/dashboard-id"]
           /\ loc' = [loc EXCEPT ![p] = [NoLocals EXCEPT !.pid = pid,
                                                         !.moduleName = moduleName]]
           /\ IF isNaN(pid)
              THEN /\ pc' = [pc EXCEPT ![p] = "done"]
                   /\ res' = [res EXCEPT ![p] = Error("Invalid Project ID")]
              ELSE /\ pc' = [pc EXCEPT ![p] = "findMapping"]
                   /\ UNCHANGED res
    /\ UNCHANGED <<store, remote, calls, history, now, answers>>

\* The route's lines after resolveDashboardId returned: /sso/metabase signs
\* the token it answers with, /api/dashboard-id signs none.
Answered(p) ==
    IF route[p] = "/sso/metabase"
    THEN [tokens EXCEPT ![p] = signToken(req[p].project_id, req[p].email_id, req[p])]
    ELSE tokens

\* The bodies /sso/metabase is called with; the fields besides the first
\* four are the route's userData.
SsoBodies ==
    [project_id : TenantIds, module_name : {"Sales", ""}, dashboard_type : {""},
     email_id : {JsString(<<"a@b.com">>)},
     first_name : {JsUndefined, JsString(<<>>), JsString(<<"X">>)},
     last_name : {JsUndefined, JsString(<<"Y">>)}]

\* (Variant: a route that signs the token before it resolves.)
StartSsoSigningFirst(p, body) ==
    /\ pc[p] = "idle"
    /\ \A q \in Procs : q < p => pc[q] # "idle"
    /\ req' = [req EXCEPT ![p] = body]
    /\ route' = [route EXCEPT ![p] = "/sso/metabase"]
    /\ loc' = [loc EXCEPT ![p] = [NoLocals EXCEPT
                  !.pid = ToNumber(body.project_id),
                  !.moduleName = ModuleToUse(body.module_name, body.dashboard_type)]]
    /\ tokens' = [tokens EXCEPT ![p] = signToken(body.project_id, body.email_id, body)]
    /\ IF isNaN(ToNumber(body.project_id))
       THEN /\ pc' = [pc EXCEPT ![p] = "done"]
            /\ res' = [res EXCEPT ![p] = Error("Invalid Project ID")]
       ELSE /\ pc' = [pc EXCEPT ![p] = "findMapping"]
            /\ UNCHANGED res
    /\ UNCHANGED <<store, remote, calls, history, now, listing>>

\* POST /sso/metabase up to its first await: the destructuring, the module
\* default, then resolveDashboardId's Number() and isNaN test.
StartSso(p, body) ==
    /\ pc[p] = "idle"
    /\ \A q \in Procs : q < p => pc[q] # "idle"
    /\ LET moduleToUse == ModuleToUse(body.module_name, body.dashboard_type)
           pid == ToNumber(body.project_id)
       IN  /\ req' = [req EXCEPT ![p] = body]
           /\ route' = [route EXCEPT ![p] = "/sso/metabase"]
           /\ loc' = [loc EXCEPT ![p] = [NoLocals EXCEPT !.pid = pid,
                                                         !.moduleName = moduleToUse]]
           /\ IF isNaN(pid)
              THEN /\ pc' = [pc EXCEPT ![p] = "done"]
                   /\ res' = [res EXCEPT ![p] = Error("Invalid Project ID")]
              ELSE /\ pc' = [pc EXCEPT ![p] = "findMapping"]
                   /\ UNCHANGED res
    /\ UNCHANGED <<store, remote, calls, history, now, answers>>

\* A second passes.
Tick ==
    /\ now < MaxClock
    /\ now' = now + 1
    /\ UNCHANGED <<store, remote, pc, req, loc, res, calls, history, route, answers>>

CacheHitNever(hit) == FALSE

\* if (mapping?.dashboardId?.[moduleName]): the value read is truthy.
\* (Variant: CacheHitNever, a test that never takes the branch.)
CacheHit(hit) == hit # 0

\* resolveDashboardId: findOne, the cache test, then provisionDashboard up
\* to its await of getOrCreateProjectFolder.
FindMapping(p) ==
    /\ pc[p] = "findMapping"
    /\ calls' = Issued(p, "findMapping")
    /\ LET l == loc[p]
           hit == ReadDashboard(store, FindIndex(store, l.pid), l.moduleName)
           config == ConfigLookup(l.moduleName)
       IN  /\ seen' = [seen EXCEPT ![p].entry = hit]
           /\ IF CacheHit(hit)
              THEN /\ pc' = [pc EXCEPT ![p] = "done"]
                   /\ res' = [res EXCEPT ![p] = Ok(hit)]
                   /\ loc' = [loc EXCEPT ![p] = Kept(l)]
                   /\ tokens' = Answered(p)
              ELSE IF ~config.truthy
              THEN /\ pc' = [pc EXCEPT ![p] = "done"]
                   /\ res' = [res EXCEPT ![p] = Error("Invalid module")]
                   /\ loc' = [loc EXCEPT ![p] = Kept(l)]
                   /\ UNCHANGED tokens
              ELSE /\ pc' = [pc EXCEPT ![p] = "findFolder"]
                   /\ loc' = [loc EXCEPT ![p].templateId = config.templateId]
                   /\ UNCHANGED <<res, tokens>>
    /\ UNCHANGED <<store, remote, req, route, now, listing, folderSets, failures>>

\* getOrCreateProjectFolder: findOne and the reuse test.
FindFolder(p) ==
    /\ pc[p] = "findFolder"
    /\ calls' = Issued(p, "findFolder")
    /\ LET n == FindIndex(store, loc[p].pid)
           folderId == ReadPath(store, n, "folderId")
       IN  /\ seen' = [seen EXCEPT ![p].folderSet =
                          \E e \in folderSets : e.projectId = loc[p].pid]
           /\ IF folderId # 0
              THEN /\ loc' = [loc EXCEPT ![p].folderId = folderId,
                                         ![p].groupId = ReadPath(store, n, "groupId")]
                   /\ pc' = [pc EXCEPT ![p] = "copyDashboard"]
              ELSE /\ pc' = [pc EXCEPT ![p] = "listGroups"]
                   /\ UNCHANGED loc
    /\ UNCHANGED <<store, remote, req, route, now, answers, res, folderSets, failures>>

\* getOrCreateMetabaseGroup: GET /api/permissions/group and the find by name.
ListGroups(p) ==
    /\ pc[p] = "listGroups"
    /\ calls' = Issued(p, "listGroups")
    /\ LET existing == FindGroup(groups, GroupName(loc[p].pid))
       IN  IF existing # 0
           THEN /\ loc' = [loc EXCEPT ![p].groupId = existing]
                /\ pc' = [pc EXCEPT ![p] = "getDataGraph"]
           ELSE /\ pc' = [pc EXCEPT ![p] = "createGroup"]
                /\ UNCHANGED loc
    /\ UNCHANGED <<store, remote, req, route, now, answers, res, history>>

\* getOrCreateMetabaseGroup: POST /api/permissions/group.
CreateGroup(p) ==
    /\ pc[p] = "createGroup"
    /\ calls' = Issued(p, "createGroup")
    /\ groups' = Append(groups, [id |-> nextId.group, name |-> GroupName(loc[p].pid)])
    /\ nextId' = [nextId EXCEPT !.group = @ + 1]
    /\ loc' = [loc EXCEPT ![p].groupId = nextId.group]
    /\ pc' = [pc EXCEPT ![p] = "getDataGraph"]
    /\ UNCHANGED <<store, collections, dashboards, dataGraph, collGraph, gtaps,
                   req, route, now, answers, res, history>>

\* (Variant: a clone without the two skips.)
GetDataGraphWithoutSkips(p) ==
    /\ pc[p] = "getDataGraph"
    /\ calls' = Issued(p, "getDataGraph")
    /\ loc' = [loc EXCEPT ![p].graph = CloneIntoSlot(dataGraph, loc[p].groupId)]
    /\ pc' = [pc EXCEPT ![p] = "putDataGraph"]
    /\ UNCHANGED <<store, remote, req, route, now, answers, res, history>>

\* cloneDataPermissionsFromTemplate: GET /api/permissions/graph, the two
\* skips, and the clone into the target's slot.
GetDataGraph(p) ==
    /\ pc[p] = "getDataGraph"
    /\ calls' = Issued(p, "getDataGraph")
    /\ IF dataGraph[TEMPLATE_GROUP_ID] = 0 \/ loc[p].groupId = TEMPLATE_GROUP_ID
       THEN /\ pc' = [pc EXCEPT ![p] = "createCollection"]
            /\ UNCHANGED loc
       ELSE /\ loc' = [loc EXCEPT ![p].graph = CloneIntoSlot(dataGraph, loc[p].groupId)]
            /\ pc' = [pc EXCEPT ![p] = "putDataGraph"]
    /\ UNCHANGED <<store, remote, req, route, now, answers, res, history>>

\* cloneDataPermissionsFromTemplate: PUT /api/permissions/graph.
PutDataGraph(p) ==
    /\ pc[p] = "putDataGraph"
    /\ calls' = Issued(p, "putDataGraph")
    /\ dataGraph' = loc[p].graph
    /\ loc' = [loc EXCEPT ![p].graph = NoDataGraph]
    /\ pc' = [pc EXCEPT ![p] = "listGtaps"]
    /\ UNCHANGED <<store, groups, collections, dashboards, collGraph, gtaps, nextId,
                   req, route, now, answers, res, history>>

\* cloneSandboxingRules: GET /api/mt/gtap and the two filters.
ListGtaps(p) ==
    /\ pc[p] = "listGtaps"
    /\ calls' = Issued(p, "listGtaps")
    /\ LET templateGtaps == GtapsOf(gtaps, TEMPLATE_GROUP_ID)
           targetGtaps == GtapsOf(gtaps, loc[p].groupId)
       IN  IF templateGtaps = <<>>
           THEN /\ pc' = [pc EXCEPT ![p] = "createCollection"]
                /\ UNCHANGED loc
           ELSE /\ loc' = [loc EXCEPT ![p].toDelete = targetGtaps,
                                      ![p].toClone = templateGtaps]
                /\ pc' = [pc EXCEPT ![p] =
                            IF targetGtaps # <<>> THEN "deleteGtap" ELSE "createGtap"]
    /\ seen' = [seen EXCEPT ![p].rules = {r \in gtaps : r.group_id = loc[p].groupId}]
    /\ UNCHANGED <<store, remote, req, route, now, answers, res, folderSets, failures>>

\* cloneSandboxingRules: one DELETE /api/mt/gtap/:id of the first loop.  The
\* remote service refuses to delete a rule that is gone, and the catch
\* swallows that.
DeleteGtap(p) ==
    /\ pc[p] = "deleteGtap"
    /\ calls' = Issued(p, "deleteGtap")
    /\ LET rule == Head(loc[p].toDelete)
           rest == Tail(loc[p].toDelete)
       IN  IF rule \notin gtaps
           THEN /\ pc' = [pc EXCEPT ![p] = "createCollection"]
                /\ loc' = [loc EXCEPT ![p].toDelete = <<>>, ![p].toClone = <<>>]
                /\ UNCHANGED gtaps
           ELSE /\ gtaps' = gtaps \ {rule}
                /\ loc' = [loc EXCEPT ![p].toDelete = rest]
                /\ pc' = [pc EXCEPT ![p] =
                            IF rest # <<>> THEN "deleteGtap" ELSE "createGtap"]
    /\ UNCHANGED <<store, groups, collections, dashboards, dataGraph, collGraph, nextId,
                   req, route, now, answers, res, history>>

\* cloneSandboxingRules: one POST /api/mt/gtap of the second loop.
CreateGtap(p) ==
    /\ pc[p] = "createGtap"
    /\ calls' = Issued(p, "createGtap")
    /\ LET templateGtap == Head(loc[p].toClone)
           rest == Tail(loc[p].toClone)
       IN  /\ gtaps' = gtaps \cup
                  {[id |-> nextId.gtap, group_id |-> loc[p].groupId,
                    table_id |-> templateGtap.table_id, card_id |-> templateGtap.card_id,
                    attribute_remappings |-> templateGtap.attribute_remappings]}
           /\ nextId' = [nextId EXCEPT !.gtap = @ + 1]
           /\ loc' = [loc EXCEPT ![p].toClone = rest]
           /\ pc' = [pc EXCEPT ![p] =
                       IF rest # <<>> THEN "createGtap" ELSE "createCollection"]
    /\ UNCHANGED <<store, groups, collections, dashboards, dataGraph, collGraph,
                   req, route, now, answers, res, history>>

\* getOrCreateProjectFolder: POST /api/collection.
CreateCollection(p) ==
    /\ pc[p] = "createCollection"
    /\ calls' = Issued(p, "createCollection")
    /\ collections' = Append(collections,
           [id |-> nextId.collection, name |-> CollectionName(loc[p].pid),
            parent_id |-> main_folder_id])
    /\ nextId' = [nextId EXCEPT !.collection = @ + 1]
    /\ loc' = [loc EXCEPT ![p].folderId = nextId.collection]
    /\ pc' = [pc EXCEPT ![p] = "getCollGraph"]
    /\ UNCHANGED <<store, groups, dashboards, dataGraph, collGraph, gtaps,
                   req, route, now, answers, res, history>>

\* setCollectionPermissions: GET /api/collection/graph and the two edits.
GetCollGraph(p) ==
    /\ pc[p] = "getCollGraph"
    /\ calls' = Issued(p, "getCollGraph")
    /\ loc' = [loc EXCEPT ![p].cgraph =
                  WithCollectionPermissions(collGraph, loc[p].folderId, loc[p].groupId)]
    /\ pc' = [pc EXCEPT ![p] = "putCollGraph"]
    /\ UNCHANGED <<store, remote, req, route, now, answers, res, history>>

\* (Variant: a folder resolution that returns without its upsert.)
PutCollGraphThenReturn(p) ==
    /\ pc[p] = "putCollGraph"
    /\ calls' = Issued(p, "putCollGraph")
    /\ collGraph' = loc[p].cgraph
    /\ loc' = [loc EXCEPT ![p].cgraph = NoCollectionGraph]
    /\ pc' = [pc EXCEPT ![p] = "copyDashboard"]
    /\ UNCHANGED <<store, groups, collections, dashboards, dataGraph, gtaps, nextId,
                   req, route, now, answers, res, history>>

\* (Variant: a PUT the service merges into the graph it has.)
PutCollGraphMerging(p) ==
    /\ pc[p] = "putCollGraph"
    /\ calls' = Issued(p, "putCollGraph")
    /\ collGraph' =
          [groups |-> collGraph.groups \cup loc[p].cgraph.groups,
           perms |-> loc[p].cgraph.perms \cup
                       {e \in collGraph.perms :
                           \A f \in loc[p].cgraph.perms : ~(f.g = e.g /\ f.c = e.c)}]
    /\ loc' = [loc EXCEPT ![p].cgraph = NoCollectionGraph]
    /\ pc' = [pc EXCEPT ![p] = "saveFolder"]
    /\ UNCHANGED <<store, groups, collections, dashboards, dataGraph, gtaps, nextId,
                   req, route, now, answers, res, history>>

\* setCollectionPermissions: PUT /api/collection/graph.
PutCollGraph(p) ==
    /\ pc[p] = "putCollGraph"
    /\ calls' = Issued(p, "putCollGraph")
    /\ collGraph' = loc[p].cgraph
    /\ loc' = [loc EXCEPT ![p].cgraph = NoCollectionGraph]
    /\ pc' = [pc EXCEPT ![p] = "saveFolder"]
    /\ UNCHANGED <<store, groups, collections, dashboards, dataGraph, gtaps, nextId,
                   req, route, now, answers, res, history>>

\* getOrCreateProjectFolder: the upsert of folderId and groupId.
SaveFolder(p) ==
    /\ pc[p] = "saveFolder"
    /\ calls' = Issued(p, "saveFolder")
    /\ store' = FindOneAndUpdate(store, loc[p].pid,
                    {SetOp("folderId", "", loc[p].folderId),
                     SetOp("groupId", "", loc[p].groupId)},
                    {SetOp("dashboardId", "", 0)})
    /\ folderSets' = folderSets \cup
           {[projectId |-> loc[p].pid, folderId |-> loc[p].folderId,
             groupId |-> loc[p].groupId]}
    /\ pc' = [pc EXCEPT ![p] = "copyDashboard"]
    /\ UNCHANGED <<remote, req, route, now, answers, loc, res, seen, failures>>

\* provisionDashboard: POST /api/dashboard/:templateId/copy.  The remote
\* service has no dashboard "undefined" to copy.
CopyDashboard(p) ==
    /\ pc[p] = "copyDashboard"
    /\ calls' = Issued(p, "copyDashboard")
    /\ IF loc[p].templateId = 0
       THEN /\ pc' = [pc EXCEPT ![p] = "done"]
            /\ res' = [res EXCEPT ![p] = Error("remote")]
            /\ loc' = [loc EXCEPT ![p] = Kept(loc[p])]
            /\ UNCHANGED <<dashboards, nextId>>
       ELSE /\ dashboards' = Append(dashboards,
                   [id |-> nextId.dashboard, template |-> loc[p].templateId,
                    collection_id |-> loc[p].folderId])
            /\ nextId' = [nextId EXCEPT !.dashboard = @ + 1]
            /\ loc' = [loc EXCEPT ![p].newDashboardId = nextId.dashboard]
            /\ pc' = [pc EXCEPT ![p] = "saveDashboard"]
            /\ UNCHANGED res
    /\ UNCHANGED <<store, groups, collections, dataGraph, collGraph, gtaps, req, route, now, answers, history>>

\* resolveDashboardId: the upsert of dashboardId.<moduleName>, and the return.
SaveDashboard(p) ==
    /\ pc[p] = "saveDashboard"
    /\ calls' = Issued(p, "saveDashboard")
    /\ store' = FindOneAndUpdate(store, loc[p].pid,
                    {SetOp("dashboardId", loc[p].moduleName, loc[p].newDashboardId)}, {})
    /\ pc' = [pc EXCEPT ![p] = "done"]
    /\ res' = [res EXCEPT ![p] = Ok(loc[p].newDashboardId)]
    /\ loc' = [loc EXCEPT ![p] = Kept(loc[p])]
    /\ tokens' = Answered(p)
    /\ UNCHANGED <<remote, req, route, now, listing, history>>

\* (Variant: a cloneSandboxingRules whose catch rethrows.)
FailRethrown(p) ==
    /\ pc[p] \in Awaits
    /\ failures < MaxFailures
    /\ failures' = failures + 1
    /\ calls' = Issued(p, pc[p])
    /\ pc' = [pc EXCEPT ![p] = "done"]
    /\ res' = [res EXCEPT ![p] =
                  Error(IF pc[p] \in StoreReads \cup StoreWrites THEN "store" ELSE "remote")]
    /\ loc' = [loc EXCEPT ![p] = Kept(loc[p])]
    /\ UNCHANGED <<store, remote, req, route, now, answers, seen, folderSets>>

\* (Variant: a failing call that is issued again.)
FailRetried(p) ==
    /\ pc[p] \in Awaits
    /\ failures < MaxFailures
    /\ failures' = failures + 1
    /\ calls' = Issued(p, pc[p])
    /\ UNCHANGED <<store, remote, req, route, now, answers, seen, folderSets,
                   pc, loc, res>>

\* A store or remote call that fails.  cloneSandboxingRules catches and
\* returns; every other catch rethrows, up to the route's catch.
Fail(p) ==
    /\ pc[p] \in Awaits
    /\ failures < MaxFailures
    /\ failures' = failures + 1
    /\ calls' = Issued(p, pc[p])
    /\ IF pc[p] \in SandboxCalls
       THEN /\ pc' = [pc EXCEPT ![p] = "createCollection"]
            /\ loc' = [loc EXCEPT ![p].toDelete = <<>>, ![p].toClone = <<>>]
            /\ UNCHANGED res
       ELSE /\ pc' = [pc EXCEPT ![p] = "done"]
            /\ res' = [res EXCEPT ![p] =
                          Error(IF pc[p] \in StoreReads \cup StoreWrites
                                THEN "store" ELSE "remote")]
            /\ loc' = [loc EXCEPT ![p] = Kept(loc[p])]
    /\ UNCHANGED <<store, remote, req, route, now, answers, seen, folderSets>>

\* The ids the delete route is called with (a route parameter is a string).
DeleteIds == {JsString(<<"8">>), JsString(<<"0", "7">>), JsString(<<"a", "b", "c">>)}

\* DELETE /api/dashboard-mapping/:projectId up to its first await.
StartDelete(p, id) ==
    /\ pc[p] = "idle"
    /\ \A q \in Procs : q < p => pc[q] # "idle"
    /\ req' = [req EXCEPT ![p] = [NoRequest EXCEPT !.project_id = id]]
    /\ route' = [route EXCEPT ![p] = "/api/dashboard-mapping/:projectId"]
    /\ loc' = [loc EXCEPT ![p] = [NoLocals EXCEPT !.pid = ToNumber(id)]]
    /\ pc' = [pc EXCEPT ![p] = "findToDelete"]
    /\ UNCHANGED <<store, remote, res, calls, history, now, answers>>

\* The delete route's findOne and its 404.  A filter value of NaN does not
\* cast to the schema's Number, and the route's catch answers 500.
FindToDelete(p) ==
    /\ pc[p] = "findToDelete"
    /\ calls' = Issued(p, "findToDelete")
    /\ IF isNaN(loc[p].pid)
       THEN /\ pc' = [pc EXCEPT ![p] = "done"]
            /\ res' = [res EXCEPT ![p] = Error("store")]
       ELSE IF FindIndex(store, loc[p].pid) = 0
       THEN /\ pc' = [pc EXCEPT ![p] = "done"]
            /\ res' = [res EXCEPT ![p] = Error("Project Not Found")]
       ELSE /\ pc' = [pc EXCEPT ![p] = "deleteMapping"]
            /\ UNCHANGED res
    /\ UNCHANGED <<store, remote, req, route, now, answers, loc, history>>

\* (Variant: a deletion that also removes the tenant's collections.)
DeleteMappingAndCollections(p) ==
    /\ pc[p] = "deleteMapping"
    /\ calls' = Issued(p, "deleteMapping")
    /\ store' = FindOneAndDelete(store, loc[p].pid)
    /\ collections' = SelectSeq(collections,
                                LAMBDA c : c.name # CollectionName(loc[p].pid))
    /\ pc' = [pc EXCEPT ![p] = "done"]
    /\ res' = [res EXCEPT ![p] = Ok(0)]
    /\ UNCHANGED <<groups, dashboards, dataGraph, collGraph, gtaps, nextId,
                   req, route, now, answers, loc, history>>

\* The delete route's findOneAndDelete and its answer.
DeleteMapping(p) ==
    /\ pc[p] = "deleteMapping"
    /\ calls' = Issued(p, "deleteMapping")
    /\ store' = FindOneAndDelete(store, loc[p].pid)
    /\ pc' = [pc EXCEPT ![p] = "done"]
    /\ res' = [res EXCEPT ![p] = Ok(0)]
    /\ UNCHANGED <<remote, req, route, now, answers, loc, history>>

\* GET /api/dashboard-mapping up to its await.
StartList(p) ==
    /\ pc[p] = "idle"
    /\ \A q \in Procs : q < p => pc[q] # "idle"
    /\ route' = [route EXCEPT ![p] = "/api/dashboard-mapping"]
    /\ pc' = [pc EXCEPT ![p] = "listMappings"]
    /\ UNCHANGED <<store, remote, req, loc, res, calls, history, now, answers>>

\* The list route's find and its answer.
ListMappings(p) ==
    /\ pc[p] = "listMappings"
    /\ calls' = Issued(p, "listMappings")
    /\ listing' = [listing EXCEPT ![p] = ListOf(store)]
    /\ pc' = [pc EXCEPT ![p] = "done"]
    /\ res' = [res EXCEPT ![p] = Ok(Len(store))]
    /\ UNCHANGED <<store, remote, req, route, now, tokens, loc, history>>

Step(p) ==
    \/ FindMapping(p)
    \/ FindFolder(p)
    \/ ListGroups(p)
    \/ CreateGroup(p)
    \/ GetDataGraph(p)
    \/ PutDataGraph(p)
    \/ ListGtaps(p)
    \/ DeleteGtap(p)
    \/ CreateGtap(p)
    \/ CreateCollection(p)
    \/ GetCollGraph(p)
    \/ PutCollGraph(p)
    \/ SaveFolder(p)
    \/ CopyDashboard(p)
    \/ SaveDashboard(p)

\* Requests overlap freely; calls may fail.
Next ==
    \E p \in Procs :
        \/ \E body \in Bodies : p <= MaxOverlap /\ Start(p, body)
        \/ Step(p)
        \/ Fail(p)

Spec == Init /\ [][Next]_vars

\* One request after the other, no call fails.
NextSeq ==
    \E p \in Procs :
        \/ \E body \in Bodies : InFlight = {} /\ Start(p, body)
        \/ Step(p)

SpecSeq == Init /\ [][NextSeq]_vars

\* One request after the other; calls may fail.
NextRetry ==
    \E p \in Procs :
        \/ \E body \in Bodies : InFlight = {} /\ Start(p, body)
        \/ Step(p)
        \/ Fail(p)

SpecRetry == Init /\ [][NextRetry]_vars

\* One request after the other, no call fails, from any of the remote states.
SpecClone == InitClone /\ [][NextSeq]_vars

\* Resolves, deletions and listings, one request after the other, no call
\* fails.
NextDelete ==
    \E p \in Procs :
        \/ \E body \in Bodies : InFlight = {} /\ Start(p, body)
        \/ \E id \in DeleteIds : InFlight = {} /\ StartDelete(p, id)
        \/ InFlight = {} /\ StartList(p)
        \/ Step(p)
        \/ FindToDelete(p)
        \/ DeleteMapping(p)
        \/ ListMappings(p)

SpecDelete == Init /\ [][NextDelete]_vars

\* Resolves and deletions overlap; calls may fail.
NextRace ==
    \E p \in Procs :
        \/ \E body \in Bodies : p <= MaxOverlap /\ Start(p, body)
        \/ \E id \in DeleteIds : p <= MaxOverlap /\ StartDelete(p, id)
        \/ Step(p)
        \/ FindToDelete(p)
        \/ DeleteMapping(p)
        \/ Fail(p)

SpecRace == Init /\ [][NextRace]_vars

\* Session requests, one after the other; calls may fail, time passes.
NextSso ==
    \/ \E p \in Procs :
          \/ \E body \in SsoBodies : p <= MaxOverlap /\ InFlight = {} /\ StartSso(p, body)
          \/ Step(p)
          \/ Fail(p)
    \/ Tick

SpecSso == Init /\ [][NextSso]_vars

\* What a client can send: ids that are no integers, module names that are
\* no modules, absent fields.  One request after the other.
AnyIds ==
    {JsUndefined, JsNull, JsNumber(7, <<>>), JsNumber(1, <<"5">>),
     JsString(<<"0", "7">>), JsString(<<>>), JsString(<<"a", "b", "c">>)}
AnyBodies ==
    [project_id : AnyIds, module_name : {"Sales", "Billing", "constructor", ""},
     dashboard_type : {""}]

NextInput ==
    \E p \in Procs :
        \/ \E body \in AnyBodies : p <= MaxOverlap /\ InFlight = {} /\ Start(p, body)
        \/ Step(p)
        \/ Fail(p)

SpecInput == Init /\ [][NextInput]_vars

\* ------------------------------------------------------------ vocabulary

Started(p) == pc[p] # "idle"
Done(p) == pc[p] = "done"
Succeeded(p) == res[p].status = "ok"
SameKey(p, q) == loc[p].pid = loc[q].pid /\ loc[p].moduleName = loc[q].moduleName
Copies(p) == calls[p]["copyDashboard"]
NoCall(p, kinds) == \A a \in kinds : calls[p][a] = 0

IsResolve(p) == route[p] \in {"/api/dashboard-id", "/sso/metabase"}
IsDelete(p) == route[p] = "/api/dashboard-mapping/:projectId"
IsList(p) == route[p] = "/api/dashboard-mapping"

\* dashboardId[m] of the tenant's document, 0 when there is no document or
\* no such own property.
Entry(docs, pid, m) ==
    IF FindIndex(docs, pid) = 0 THEN 0 ELSE docs[FindIndex(docs, pid)].dashboardId[m]

DocsOf(pid) == {n \in 1..Len(store) : store[n].projectId = pid}

\* A tenant id the specification calls well formed: an integer, given as a
\* number or as a string of digits.
WellFormedInteger(v) ==
    \/ v.k = "number" /\ v.f = <<>>
    \/ v.k = "string" /\ v.s # <<>> /\ AllDigits(v.s)

\* ------------------------------------------------------------------ claims

\* C1 as stated: two resolves of the same tenant and module, run one after
\* the other with no failing call, make exactly one remote dashboard copy in
\* total and return the same id, whatever the store held before.
C1_ExactlyOneCopyFromAnyStore ==
    \A p \in Procs : \A q \in Procs :
        (q = p + 1 /\ Done(p) /\ Done(q) /\ SameKey(p, q))
            => /\ Copies(p) + Copies(q) = 1
               /\ Succeeded(p) /\ res[q] = res[p]

\* C1 as amended: of two resolves of the same tenant and module run one
\* after the other with no failing call, the second makes no dashboard copy,
\* the first makes exactly one when the store held no entry for the module
\* and none when it did, and both return the same id.
C1_SequentialIdempotence ==
    \A p \in Procs : \A q \in Procs :
        (q = p + 1 /\ Done(p) /\ Done(q) /\ SameKey(p, q))
            => /\ Copies(q) = 0
               /\ Copies(p) = (IF seen[p].entry = 0 THEN 1 ELSE 0)
               /\ Succeeded(p) /\ res[q] = res[p]

\* Two resolves in sequence on a miss: one copy, the same id twice.
C1_Witness ==
    /\ Done(1) /\ Done(2) /\ SameKey(1, 2)
    /\ seen[1].entry = 0 /\ Copies(1) = 1 /\ Copies(2) = 0
    /\ Succeeded(2) /\ res[2] = res[1]

\* C2: when overlapping resolves of one tenant and module, started against
\* an empty store, have all finished and one of them returned an id, the
\* store holds exactly one document of the tenant, its entry for the module
\* is an id one of them returned, and it has no entry for another module.
C2_OneEntryAfterRace ==
    LET S == {p \in Procs : Started(p)}
    IN  (/\ S # {}
         /\ \A p \in S : Done(p)
         /\ \A p \in S : \A q \in S : SameKey(p, q)
         /\ \E p \in S : Succeeded(p))
        => \A p \in S :
              /\ Cardinality(DocsOf(loc[p].pid)) = 1
              /\ \E q \in S :
                    /\ Succeeded(q)
                    /\ Entry(store, loc[p].pid, loc[p].moduleName) = res[q].value
              /\ \A m \in ModuleNames \ {loc[p].moduleName} :
                    Entry(store, loc[p].pid, m) = 0

\* Two resolves raced, both copied the dashboard, both finished.
C2_Witness ==
    /\ Done(1) /\ Done(2) /\ SameKey(1, 2)
    /\ Succeeded(1) /\ Succeeded(2)
    /\ Copies(1) = 1 /\ Copies(2) = 1
    /\ Len(dashboards) = 2
    /\ Cardinality(DocsOf(loc[1].pid)) = 1

\* C3: a resolve whose folder lookup runs after a folder upsert for its
\* tenant makes none of the remote calls of folder resolution (group list,
\* group create, permission graph, sandbox rules, collection create,
\* collection permissions), and goes on with a folderId that was stored.
C3_FolderReuse ==
    \A p \in Procs :
        seen[p].folderSet
            => /\ NoCall(p, FolderCalls)
               /\ pc[p] \in {"copyDashboard", "saveDashboard"}
                    => \E e \in folderSets :
                          /\ e.projectId = loc[p].pid
                          /\ e.folderId = loc[p].folderId
                          /\ e.groupId = loc[p].groupId

\* C4: a step of a resolve of module m1, successful or failing, leaves the
\* tenant's entry of every other module m2 as it was.
C4_ModuleIsolation ==
    [][\A p \in Procs :
          calls'[p] # calls[p]
              => \A m \in ModuleNames \ {loc[p].moduleName} :
                    Entry(store', loc[p].pid, m) = Entry(store, loc[p].pid, m)]_vars

\* One tenant holds the entries of two modules, each stored by its resolve.
C4_Witness ==
    /\ Done(1) /\ Done(2) /\ Succeeded(1) /\ Succeeded(2)
    /\ loc[1].pid = loc[2].pid /\ loc[1].moduleName # loc[2].moduleName
    /\ Entry(store, loc[1].pid, loc[1].moduleName) = res[1].value
    /\ Entry(store, loc[2].pid, loc[2].moduleName) = res[2].value

\* C5: a resolve of a module name that is no key of CONFIG_MAP, for a well
\* formed tenant id, makes no remote call and no store write, and ends with
\* the input error (or with the error of its one store read).
C5_UnknownModuleRejected ==
    \A p \in Procs :
        (/\ Started(p)
         /\ WellFormedInteger(req[p].project_id)
         /\ loc[p].moduleName \notin DOMAIN CONFIG_MAP)
        => /\ NoCall(p, RemoteCalls \cup StoreWrites)
           /\ Done(p) => res[p] \in {Error("Invalid module"), Error("store")}

\* C6: a resolve whose tenant id is missing or no well formed integer ends
\* with the input error before any store or remote call.
C6_InvalidTenantRejected ==
    \A p \in Procs :
        (Started(p) /\ ~WellFormedInteger(req[p].project_id))
        => /\ NoCall(p, Awaits)
           /\ Done(p)
           /\ res[p] = Error("Invalid Project ID")

\* C7: a resolve whose lookup finds an entry for its module returns that id
\* at once: it is finished, and has made no remote call and no store write.
C7_CacheHit ==
    \A p \in Procs :
        seen[p].entry # 0
            => /\ Done(p)
               /\ res[p] = Ok(seen[p].entry)
               /\ NoCall(p, RemoteCalls \cup StoreWrites \cup {"findFolder"})

\* A resolve found the entry another resolve had stored.
C7_Witness ==
    \E p \in Procs : \E q \in Procs :
        /\ p # q /\ Done(p) /\ Done(q)
        /\ seen[p].entry # 0 /\ seen[p].entry = res[q].value
        /\ Copies(q) = 1

\* C8: once dashboardId[m] of a document holds an id, no step changes it.
C8_DashboardWriteOnce ==
    [][\A n \in 1..Len(store) : \A m \in ModuleNames :
          store[n].dashboardId[m] # 0
              => /\ n <= Len(store')
                 /\ store'[n].dashboardId[m] = store[n].dashboardId[m]]_vars

\* C9: once a folderId has been set for a tenant, no folder upsert sets a
\* different one for that tenant.
C9_FolderWriteOnce ==
    \A e \in folderSets : \A f \in folderSets :
        e.projectId = f.projectId => e.folderId = f.folderId

C11_DeleteThenReprovision ==
    \A d \in Procs : \A q \in Procs :
        (/\ q = d + 1 /\ IsDelete(d) /\ Done(d) /\ Succeeded(d) /\ Done(q))
        => /\ IsList(q)
              => \A n \in 1..Len(listing[q]) : listing[q][n].projectId # loc[d].pid
           /\ (IsResolve(q) /\ loc[q].pid = loc[d].pid)
              => /\ Succeeded(q)
                 /\ \A a \in {"listGroups", "createCollection", "copyDashboard",
                               "saveFolder", "saveDashboard"} : calls[q][a] = 1
                 /\ LET n == FindIndex(store, loc[q].pid)
                    IN  /\ n # 0
                        /\ store[n].dashboardId[loc[q].moduleName] = res[q].value
                        /\ store[n].folderId = collections[Len(collections)].id

\* The name a present, non-empty field gives, the fallback otherwise.
NameOr(v, fallback) == IF v.k = "undefined" \/ v = JsString(<<>>) THEN fallback ELSE v

\* C12 as stated: a token carries the request's project_id and email, the
\* first_name and last_name of the profile or "User" and "Soffront" when the
\* field is absent, the one group "Tenant_<project_id>", and expires 24 hours
\* after it was issued.
C12_TokenClaimsFallbackWhenAbsent ==
    \A p \in Procs :
        tokens[p] # NoToken
            => /\ tokens[p].project_id = req[p].project_id
               /\ tokens[p].email = req[p].email_id
               /\ tokens[p].first_name =
                     (IF req[p].first_name = JsUndefined
                      THEN JsString(<<"U", "s", "e", "r">>) ELSE req[p].first_name)
               /\ tokens[p].last_name =
                     (IF req[p].last_name = JsUndefined
                      THEN JsString(<<"S", "o", "f", "f", "r", "o", "n", "t">>)
                      ELSE req[p].last_name)
               /\ tokens[p].groups = << <<"Tenant_">> \o JsToString(req[p].project_id) >>
               /\ tokens[p].exp = tokens[p].iat + 24 * 60 * 60
               /\ tokens[p].iat <= now

\* C12 as amended: the same, with the fallback names also taking the place
\* of a first_name or last_name that is present but empty.
C12_TokenClaims ==
    \A p \in Procs :
        tokens[p] # NoToken
            => /\ tokens[p].project_id = req[p].project_id
               /\ tokens[p].email = req[p].email_id
               /\ tokens[p].first_name =
                     NameOr(req[p].first_name, JsString(<<"U", "s", "e", "r">>))
               /\ tokens[p].last_name =
                     NameOr(req[p].last_name,
                            JsString(<<"S", "o", "f", "f", "r", "o", "n", "t">>))
               /\ tokens[p].groups = << <<"Tenant_">> \o JsToString(req[p].project_id) >>
               /\ tokens[p].exp = tokens[p].iat + 24 * 60 * 60
               /\ tokens[p].iat <= now

\* A token was issued a second after the start, for a given first name and
\* no last name.
C12_Witness ==
    \E p \in Procs :
        /\ tokens[p] # NoToken /\ tokens[p].iat = 1
        /\ req[p].first_name = JsString(<<"X">>) /\ req[p].last_name = JsUndefined
        /\ tokens[p].last_name = JsString(<<"S", "o", "f", "f", "r", "o", "n", "t">>)

\* C13: a session request holds a token only when its resolve has returned
\* an id, and the token is for the tenant the resolve was for; a session
\* request whose resolve failed holds no token and answers with the error.
C13_TokenOnlyAfterResolve ==
    \A p \in Procs :
        route[p] = "/sso/metabase"
            => /\ tokens[p] # NoToken
                    => /\ Done(p) /\ Succeeded(p)
                       /\ ToNumber(tokens[p].project_id) = loc[p].pid
                       /\ res[p].value # 0
               /\ (Done(p) /\ ~Succeeded(p))
                    => /\ tokens[p] = NoToken
                       /\ res[p].status = "error"

\* One session request got its token, another failed on a remote call and
\* got none.
C13_Witness ==
    \E p \in Procs : \E q \in Procs :
        /\ route[p] = "/sso/metabase" /\ Done(p) /\ Succeeded(p) /\ tokens[p] # NoToken
        /\ route[q] = "/sso/metabase" /\ Done(q) /\ res[q] = Error("remote")
        /\ tokens[q] = NoToken

\* The sandbox rules of group g, and what a rule says besides its id and group.
RulesOf(g) == {r \in gtaps : r.group_id = g}
RuleBody(r) ==
    [table_id |-> r.table_id, card_id |-> r.card_id,
     attribute_remappings |-> r.attribute_remappings]

\* C14: when a sandbox clone onto group H has just returned, no call having
\* failed, H has one rule per rule of the template group, with that rule's
\* table, card and attribute remappings, and none of the rules H had when the
\* clone listed them; also when the template group has no rule.
C14_SandboxCloneReplaces ==
    \A p \in Procs :
        (calls[p]["listGtaps"] = 1 /\ pc[p] = "createCollection")
            => LET H == loc[p].groupId
               IN  /\ RulesOf(H) \cap seen[p].rules = {}
                   /\ Cardinality(RulesOf(H)) = Cardinality(RulesOf(TEMPLATE_GROUP_ID))
                   /\ {RuleBody(r) : r \in RulesOf(H)}
                         = {RuleBody(r) : r \in RulesOf(TEMPLATE_GROUP_ID)}

\* C15: a resolve request that carries no module name, for a well formed
\* tenant id, is resolved for "Management", and when none of its store or
\* remote calls failed it ends with a dashboard id.
C15_DefaultModuleResolves ==
    \A p \in Procs :
        (/\ route[p] = "/api/dashboard-id"
         /\ req[p].module_name = "" /\ req[p].dashboard_type = ""
         /\ WellFormedInteger(req[p].project_id))
        => /\ loc[p].moduleName = "Management"
           /\ (Done(p) /\ res[p].error \notin {"store", "remote"})
                => (Succeeded(p) /\ res[p].value # 0)

\* The awaits of a resolve that misses, in program order, and those of them
\* every such resolve passes.
ProgramOrder ==
    <<"findMapping", "findFolder", "listGroups", "createGroup", "getDataGraph",
      "putDataGraph", "listGtaps", "deleteGtap", "createGtap", "createCollection",
      "getCollGraph", "putCollGraph", "saveFolder", "copyDashboard", "saveDashboard">>
ResolveAwaits == {ProgramOrder[n] : n \in 1..Len(ProgramOrder)}
Rank == [a \in ResolveAwaits |-> CHOOSE n \in 1..Len(ProgramOrder) : ProgramOrder[n] = a]
EveryMiss ==
    {"findMapping", "findFolder", "listGroups", "getDataGraph", "createCollection",
     "getCollGraph", "putCollGraph", "saveFolder", "copyDashboard"}

\* C16: a resolve is at one await at a time; no await after the one it is at
\* has been issued, and every await before it that a miss passes has been
\* issued once and has returned.  So the group is resolved before the
\* collection is created, the collection is created before its permissions
\* are read and written, the folder upsert has left a document before the
\* dashboard copy is requested, and the dashboard upsert follows the copy
\* and stores the id the copy returned.
C16_StepOrder ==
    \A p \in Procs :
        IsResolve(p)
            => /\ pc[p] \in ResolveAwaits \cup {"done"}
               /\ pc[p] \in ResolveAwaits
                    => /\ \A a \in ResolveAwaits :
                             Rank[a] > Rank[pc[p]] => calls[p][a] = 0
                       /\ \A a \in EveryMiss :
                             Rank[a] < Rank[pc[p]] => calls[p][a] = 1
               /\ \A a \in ResolveAwaits : \A b \in EveryMiss :
                     (calls[p][a] > 0 /\ Rank[b] < Rank[a]) => calls[p][b] = 1
               /\ pc[p] \in {"createCollection", "getCollGraph", "putCollGraph"}
                    => loc[p].groupId # 0
               /\ pc[p] \in {"getCollGraph", "putCollGraph", "saveFolder"}
                    => \E n \in 1..Len(collections) : collections[n].id = loc[p].folderId
               /\ calls[p]["copyDashboard"] > 0 => FindIndex(store, loc[p].pid) # 0
               /\ pc[p] = "saveDashboard"
                    => \E n \in 1..Len(dashboards) :
                          dashboards[n].id = loc[p].newDashboardId
               /\ (calls[p]["saveDashboard"] > 0 /\ Succeeded(p))
                    => /\ calls[p]["copyDashboard"] = 1
                       /\ \E n \in 1..Len(dashboards) : dashboards[n].id = res[p].value

\* A resolve went the whole way of a miss: it created the group, cloned one
\* sandbox rule, created the collection and stored the dashboard.
C16_Witness ==
    \E p \in Procs :
        /\ Done(p) /\ Succeeded(p)
        /\ \A a \in EveryMiss \cup {"createGroup", "putDataGraph", "listGtaps",
                                     "createGtap", "saveDashboard"} : calls[p][a] = 1

\* C17: when the permission graph a clone reads has the template group's
\* entry and the target is another group, the clone goes on to write, the
\* graph it writes has the template's subtree as read in the target's slot
\* and every other group's entry as read, and the write puts that graph in
\* place.
C17_DataCloneFrame ==
    [][\A p \in Procs :
          /\ (/\ pc[p] = "getDataGraph" /\ pc'[p] # "getDataGraph"
              /\ failures' = failures
              /\ dataGraph[TEMPLATE_GROUP_ID] # 0
              /\ loc[p].groupId # TEMPLATE_GROUP_ID)
             => /\ pc'[p] = "putDataGraph"
                /\ loc'[p].graph[loc[p].groupId] = dataGraph[TEMPLATE_GROUP_ID]
                /\ \A g \in GroupIdSpace \ {loc[p].groupId} :
                      loc'[p].graph[g] = dataGraph[g]
          /\ (pc[p] = "putDataGraph" /\ pc'[p] # "putDataGraph" /\ failures' = failures)
             => dataGraph' = loc[p].graph]_vars

\* A clone has just written the graph: its target has the template's
\* subtree, and the group of another tenant has kept its own.
C17_Witness ==
    \E p \in Procs :
        /\ pc[p] = "listGtaps"
        /\ loc[p].groupId # EarlierGroup.id
        /\ dataGraph[loc[p].groupId] = 2 /\ dataGraph[TEMPLATE_GROUP_ID] = 2
        /\ dataGraph[EarlierGroup.id] = 3

\* The group a resolve of this tenant id finds by name, 0 when there is none.
GroupOf(pid) == FindGroup(groups, GroupName(pid))

\* C18: a clone that reads a graph without the template group's entry, or
\* whose target is the template group, returns without a write: the graph
\* stays as it is, group resolution goes on with the group id to the
\* creation of the collection, and the request has not failed.  A request
\* whose clone is skipped never writes a permission graph.
C18_CloneSkips ==
    /\ [](\A p \in Procs :
            (/\ calls[p]["getDataGraph"] > 0
             /\ (dataGraph[TEMPLATE_GROUP_ID] = 0 \/ GroupOf(loc[p].pid) = TEMPLATE_GROUP_ID))
            => /\ calls[p]["putDataGraph"] = 0
               /\ res[p].status # "error")
    /\ [][\A p \in Procs :
            (/\ pc[p] = "getDataGraph" /\ pc'[p] # "getDataGraph"
             /\ failures' = failures
             /\ (dataGraph[TEMPLATE_GROUP_ID] = 0 \/ loc[p].groupId = TEMPLATE_GROUP_ID))
            => /\ pc'[p] = "createCollection"
               /\ loc[p].groupId # 0
               /\ loc'[p].groupId = loc[p].groupId
               /\ dataGraph' = dataGraph
               /\ res'[p] = res[p]]_vars

\* Resolves finished although their clones were skipped: one found the
\* template group under its tenant's name, one created its group.
C18_Witness ==
    \E p \in Procs : \E q \in Procs :
        /\ Done(p) /\ Succeeded(p) /\ GroupOf(loc[p].pid) = TEMPLATE_GROUP_ID
        /\ Done(q) /\ Succeeded(q) /\ calls[q]["createGroup"] = 1
        /\ dataGraph[TEMPLATE_GROUP_ID] = 0
        /\ \A r \in {p, q} : calls[r]["getDataGraph"] = 1 /\ calls[r]["putDataGraph"] = 0

\* The call request p is at fails in this step.
Fails(p) == failures' = failures + 1 /\ calls'[p] # calls[p]

\* C19: when a call of the sandbox clone fails (the listing, a deletion or a
\* creation of a rule; a deletion also fails when the rule is gone), the request is not answered with an error: it goes
\* on, with its group id, to the creation of the collection.  When the read
\* or the write of the permission graph fails, the request ends with the
\* error, having created no collection.
C19_BestEffortAndFatal ==
    [][\A p \in Procs :
          /\ (/\ pc[p] \in SandboxCalls
              /\ \/ Fails(p)
                 \/ pc[p] = "deleteGtap" /\ calls'[p] # calls[p] /\ gtaps' = gtaps)
             => /\ pc'[p] = "createCollection"
                /\ loc[p].groupId # 0 /\ loc'[p].groupId = loc[p].groupId
                /\ res'[p] = res[p] /\ res[p].status = "none"
          /\ (pc[p] \in {"getDataGraph", "putDataGraph"} /\ Fails(p))
             => /\ pc'[p] = "done"
                /\ res'[p] = Error("remote")
                /\ calls'[p]["createCollection"] = 0
                /\ collections' = collections]_vars

\* The only request there was lost a call of its sandbox clone and still
\* returned its dashboard id.
C19_Witness ==
    \E p \in Procs :
        /\ \A q \in Procs \ {p} : ~Started(q)
        /\ failures = 1
        /\ Done(p) /\ Succeeded(p)
        /\ calls[p]["listGtaps"] = 1 /\ calls[p]["createGtap"] = 1
        /\ RulesOf(GroupOf(loc[p].pid)) = {}

\* The ids of the remote groups of this name.
Named(name) == {groups[n].id : n \in {m \in 1..Len(groups) : groups[m].name = name}}

\* C20: group resolution lists the groups once.  When the listing has a
\* group of the tenant's name it takes that group's id, creates no group and
\* goes on to clone onto it; when it has none it creates one group of that
\* name, takes the new id and goes on to clone onto it.  No request creates
\* more than one group, and a request whose group resolution has returned
\* has read and written the permission graph and listed the sandbox rules.
C20_GroupByName ==
    /\ [](\A p \in Procs :
            /\ calls[p]["listGroups"] <= 1 /\ calls[p]["createGroup"] <= 1
            /\ pc[p] = "createCollection"
                 => /\ loc[p].groupId # 0
                    /\ \E n \in 1..Len(groups) :
                          /\ groups[n].id = loc[p].groupId
                          /\ groups[n].name = GroupName(loc[p].pid)
                    /\ \A a \in {"getDataGraph", "putDataGraph", "listGtaps"} :
                          calls[p][a] = 1)
    /\ [][\A p \in Procs :
            /\ (pc[p] = "listGroups" /\ pc'[p] # "listGroups" /\ ~Fails(p))
               => /\ groups' = groups
                  /\ IF Named(GroupName(loc[p].pid)) # {}
                     THEN /\ pc'[p] = "getDataGraph"
                          /\ loc'[p].groupId \in Named(GroupName(loc[p].pid))
                     ELSE pc'[p] = "createGroup"
            /\ (pc[p] = "createGroup" /\ pc'[p] # "createGroup" /\ ~Fails(p))
               => /\ calls[p]["listGroups"] = 1
                  /\ groups' = Append(groups, [id |-> loc'[p].groupId,
                                               name |-> GroupName(loc[p].pid)])
                  /\ \A n \in 1..Len(groups) : groups[n].id # loc'[p].groupId
                  /\ pc'[p] = "getDataGraph"]_vars

\* One resolve created the tenant's group, a later one of the same tenant
\* found it by name and cloned onto it again.
C20_Witness ==
    \E p \in Procs : \E q \in Procs :
        /\ Done(p) /\ Succeeded(p) /\ calls[p]["createGroup"] = 1
        /\ Done(q) /\ Succeeded(q) /\ calls[q]["createGroup"] = 0
        /\ calls[q]["listGroups"] = 1 /\ calls[q]["putDataGraph"] = 1
        /\ calls[q]["deleteGtap"] = 1 /\ calls[q]["createGtap"] = 1
        /\ loc[p].pid = loc[q].pid
        /\ Len(groups) = 1

\* The collections that carry this tenant's name.
CollectionsOf(pid) ==
    {n \in 1..Len(collections) : collections[n].name = CollectionName(pid)}

\* Request p got a collection created (the creation returned).
CreatedCollection(p) ==
    calls[p]["createCollection"] = 1 /\ (Done(p) => calls[p]["getCollGraph"] >= 1)

\* Request p failed after its creation of the group had returned and before
\* its folder upsert had.
FailedAfterGroup(p) ==
    /\ Done(p) /\ res[p].status = "error"
    /\ calls[p]["createGroup"] = 1 /\ calls[p]["getDataGraph"] = 1
    /\ calls[p]["copyDashboard"] = 0

\* C21: when a resolve of tenant t has failed after it created the group and
\* before its folder record was stored, the resolve of t that follows it
\* and returns has read the folder record again, listed the groups, created
\* no group (there is one group of t's name) and created one collection; every
\* collection a resolve of t created is there, the failed attempt's among
\* them.
C21_RetryAfterPartialFailure ==
    \A p \in Procs : \A q \in Procs :
        (/\ q = p + 1 /\ FailedAfterGroup(p)
         /\ Done(q) /\ Succeeded(q) /\ loc[q].pid = loc[p].pid)
        => /\ calls[q]["findFolder"] = 1 /\ calls[q]["listGroups"] = 1
           /\ calls[q]["createGroup"] = 0
           /\ Cardinality(Named(GroupName(loc[p].pid))) = 1
           /\ calls[q]["createCollection"] = 1
           /\ Cardinality(CollectionsOf(loc[p].pid))
                 = Cardinality({r \in Procs : loc[r].pid = loc[p].pid /\ CreatedCollection(r)})

\* The first resolve failed when it wrote the collection permissions, the
\* second one returned: one group, two collections of the tenant's name.
C21_Witness ==
    /\ FailedAfterGroup(1) /\ CreatedCollection(1)
    /\ Done(2) /\ Succeeded(2) /\ loc[2].pid = loc[1].pid
    /\ Len(groups) = 1 /\ Cardinality(CollectionsOf(loc[1].pid)) = 2

\* The (group, collection) entries request p sets in the graph it reads.
EntriesSet(p) ==
    {<<loc[p].groupId, loc[p].folderId>>}
        \cup (IF ALL_USERS_GROUP_ID \in collGraph.groups
              THEN {<<ALL_USERS_GROUP_ID, loc[p].folderId>>} ELSE {})

\* Every entry of the two graphs other than those of `set` is in both.
SameElsewhere(read, written, set) ==
    \A e \in read.perms \cup written.perms :
        <<e.g, e.c>> \notin set => (e \in read.perms /\ e \in written.perms)

ReadsCollGraph(p) == pc[p] = "getCollGraph" /\ pc'[p] = "putCollGraph"
WritesCollGraph(p) == pc[p] = "putCollGraph" /\ pc'[p] = "saveFolder"
Grant(p) == [g |-> loc[p].groupId, c |-> loc[p].folderId, perm |-> "write"]
Revocation(p) == [g |-> ALL_USERS_GROUP_ID, c |-> loc[p].folderId, perm |-> "none"]

\* C22: for every graph read, the graph folder resolution writes
\* has "write" for the tenant's group on the new folder and "none" for the
\* all-users group on it, and every other (group, collection) entry as read.
C22_CollectionPermissions ==
    [][\A p \in Procs :
          /\ ReadsCollGraph(p) =>
                /\ Grant(p) \in loc'[p].cgraph.perms
                /\ Revocation(p) \in loc'[p].cgraph.perms
                /\ SameElsewhere(collGraph, loc'[p].cgraph,
                                 {<<Grant(p).g, Grant(p).c>>,
                                  <<Revocation(p).g, Revocation(p).c>>})
          /\ WritesCollGraph(p) => collGraph' = loc[p].cgraph]_vars

\* What is written for any graph read: the grant; the revocation when the
\* graph read has an entry for group '1', and no entry for that pair when it
\* has none; every other (group, collection) entry as read.
WhatIsWritten ==
    [][\A p \in Procs :
          /\ ReadsCollGraph(p) =>
                /\ Grant(p) \in loc'[p].cgraph.perms
                /\ Revocation(p) \in loc'[p].cgraph.perms
                      <=> ALL_USERS_GROUP_ID \in collGraph.groups
                /\ SameElsewhere(collGraph, loc'[p].cgraph, EntriesSet(p))
          /\ WritesCollGraph(p) => collGraph' = loc[p].cgraph]_vars

\* Folder resolution of request p has returned on a miss: its upsert is done
\* and the dashboard copy is next.
FolderReturned(p) == pc[p] = "copyDashboard" /\ calls[p]["saveFolder"] = 1

\* C23: when folder resolution returns {folderId, groupId} on a miss, the
\* store holds a record of the tenant with that folderId and that groupId.
C23_FolderPersistedBeforeReturn ==
    \A p \in Procs :
        FolderReturned(p)
            => LET n == FindIndex(store, loc[p].pid)
               IN  /\ n # 0
                   /\ store[n].folderId = loc[p].folderId
                   /\ store[n].groupId = loc[p].groupId

\* What the folder upsert does to the store: the tenant has a record after
\* it, with the dashboard entries it had before (none when it had no record),
\* and no other tenant's record changes.
FolderUpsertEffect ==
    [][\A p \in Procs :
          (pc[p] = "saveFolder" /\ pc'[p] = "copyDashboard")
              => /\ FindIndex(store', loc[p].pid) # 0
                 /\ \A m \in ModuleNames :
                       Entry(store', loc[p].pid, m) = Entry(store, loc[p].pid, m)
                 /\ \A n \in 1..Len(store) : store'[n].projectId = store[n].projectId
                 /\ \A n \in 1..Len(store) :
                       store[n].projectId # loc[p].pid => store'[n] = store[n]]_vars

WritesDataGraph(p) == pc[p] = "putDataGraph" /\ pc'[p] = "listGtaps"

\* The grant a folder upsert's assignment stands for.
GrantOf(e) == [g |-> e.groupId, c |-> e.folderId, perm |-> "write"]

\* C24: a flow's write of a permission graph (collection-level or
\* data-level) removes every entry that is in the service's graph and not
\* in the graph the flow holds, that is, every change another flow wrote
\* after the writer's read; and there is an interleaving of two flows of
\* different tenants, both returning without error, after which the first
\* tenant's change is in neither graph (C24_Witness).
C24_LostUpdate ==
    [][\A q \in Procs :
          /\ WritesCollGraph(q) =>
                \A e \in collGraph.perms :
                    e \notin loc[q].cgraph.perms => e \notin collGraph'.perms
          /\ WritesDataGraph(q) =>
                \A g \in GroupIdSpace :
                    (dataGraph[g] # 0 /\ loc[q].graph[g] = 0) => dataGraph'[g] = 0]_vars

\* Two flows of different tenants returned without error; the grant and the
\* data permissions of the first one's group are gone from the graphs.
C24_Witness ==
    /\ Done(1) /\ Done(2) /\ Succeeded(1) /\ Succeeded(2) /\ failures = 0
    /\ loc[1].pid # loc[2].pid
    /\ calls[1]["putCollGraph"] = 1 /\ calls[1]["putDataGraph"] = 1
    /\ calls[2]["putCollGraph"] = 1 /\ calls[2]["putDataGraph"] = 1
    /\ \E e \in folderSets :
          /\ e.projectId = loc[1].pid
          /\ GrantOf(e) \notin collGraph.perms
          /\ dataGraph[e.groupId] = 0
    /\ \E e \in folderSets :
          /\ e.projectId = loc[2].pid
          /\ GrantOf(e) \in collGraph.perms
          /\ dataGraph[e.groupId] # 0

\* Request p is a resolve that found no entry, copied and returned.
MissedAndReturned(p) ==
    IsResolve(p) /\ Done(p) /\ Succeeded(p) /\ seen[p].entry = 0

\* The dashboard id is in some mapping record.
Referenced(id) ==
    \E n \in 1..Len(store) : \E m \in ModuleNames : store[n].dashboardId[m] = id

\* C25: overlapping resolves of one tenant and module that both found the
\* entry missing both copy the dashboard (two distinct ids); each store step
\* sets the entry to its own copy's id, so the entry at the end is the id
\* of the store step that ran last; the id that is not the entry is in no
\* mapping record.
C25_LastStoreWins ==
    /\ [](\A p \in Procs : \A q \in Procs \ {p} :
            (SameKey(p, q) /\ MissedAndReturned(p) /\ MissedAndReturned(q))
                => /\ Copies(p) = 1 /\ Copies(q) = 1
                   /\ res[p].value # res[q].value
                   /\ \E r \in Procs :
                         /\ SameKey(p, r) /\ MissedAndReturned(r)
                         /\ Entry(store, loc[p].pid, loc[p].moduleName) = res[r].value
                   /\ \A r \in {p, q} :
                         res[r].value # Entry(store, loc[p].pid, loc[p].moduleName)
                             => ~Referenced(res[r].value))
    /\ [][\A p \in Procs :
            (pc[p] = "saveDashboard" /\ pc'[p] = "done" /\ res'[p].status = "ok")
                => Entry(store', loc[p].pid, loc[p].moduleName) = loc[p].newDashboardId]_vars

\* Both resolves missed; the one that started second stored first, so the
\* entry is the first one's id and the second one's copy is an orphan.
C25_Witness ==
    /\ SameKey(1, 2) /\ MissedAndReturned(1) /\ MissedAndReturned(2)
    /\ Entry(store, loc[1].pid, loc[1].moduleName) = res[1].value
    /\ res[2].value < res[1].value
    /\ ~Referenced(res[2].value)
    /\ \E d \in 1..Len(dashboards) : dashboards[d].id = res[2].value

FatalCalls == RemoteCalls \ SandboxCalls

\* C26: a resolve issues each remote call at most once (the deletion once
\* per rule it listed for its group, the creation once per template rule);
\* a remote call outside the sandbox clone that fails ends the resolve with
\* the error and changes neither the store nor the remote service, and a
\* resolve that has ended issues no call: the tenant's dashboards map is as
\* it was when the copy failed.
C26_FailStopNoRetry ==
    /\ [](\A p \in Procs :
            /\ \A a \in Awaits \ {"deleteGtap", "createGtap"} : calls[p][a] <= 1
            /\ calls[p]["deleteGtap"] <= Cardinality(seen[p].rules)
            /\ calls[p]["createGtap"] <= Cardinality(RulesOf(TEMPLATE_GROUP_ID)))
    /\ [][\A p \in Procs :
            /\ (/\ pc[p] \in FatalCalls /\ calls'[p] # calls[p]
                /\ Fails(p) \/ res'[p].status = "error")
               => /\ pc'[p] = "done" /\ res'[p] = Error("remote")
                  /\ store' = store /\ remote' = remote
            /\ Done(p) => (calls'[p] = calls[p] /\ pc'[p] = pc[p])]_vars

\* A resolve stored its folder, lost the dashboard copy and ended with the
\* error: no store step for the dashboard, no entry.
C26_Witness ==
    \E p \in Procs :
        /\ Done(p) /\ res[p] = Error("remote") /\ failures = 1
        /\ calls[p]["saveFolder"] = 1 /\ calls[p]["copyDashboard"] = 1
        /\ calls[p]["saveDashboard"] = 0
        /\ Cardinality(DocsOf(loc[p].pid)) = 1
        /\ Entry(store, loc[p].pid, loc[p].moduleName) = 0

\* Every resource of the sequence before the step is in it after the step.
Stays(before, after) ==
    /\ Len(after) >= Len(before)
    /\ \A n \in 1..Len(before) : after[n] = before[n]

C27_WitnessNotFound ==
    \E d \in Procs : \E q \in Procs :
        /\ IsDelete(d) /\ Done(d) /\ res[d] = Error("Project Not Found")
        /\ FailedAfterGroup(q) /\ loc[q].pid = loc[d].pid
        /\ store = <<>>
        /\ Named(GroupName(loc[d].pid)) # {}

\* C28: the group claim of a token a session request was answered with
\* names the remote group that resolution looks up or creates for the
\* request's tenant, and that group is in the remote service.
C28_TokenGroupIsProvisionedGroup ==
    \A p \in Procs :
        tokens[p] # NoToken
            => /\ tokens[p].groups = <<GroupName(loc[p].pid)>>
               /\ Named(tokens[p].groups[1]) # {}

\* The collection the remote dashboard of this id was copied into, 0 when
\* there is no such dashboard.
CollectionOfDashboard(id) ==
    IF \E n \in 1..Len(dashboards) : dashboards[n].id = id
    THEN dashboards[CHOOSE n \in 1..Len(dashboards) : dashboards[n].id = id].collection_id
    ELSE 0

\* C29: every dashboard id in a mapping record is the id of a dashboard
\* that was copied into the collection the record names as folderId.
C29_DashboardInRecordedFolder ==
    \A n \in 1..Len(store) : \A m \in ModuleNames :
        store[n].dashboardId[m] # 0
            => /\ store[n].folderId # 0
               /\ CollectionOfDashboard(store[n].dashboardId[m]) = store[n].folderId

\* C30: a mapping record with a dashboard entry has folderId and groupId
\* set.
C30_EntryImpliesFolderAndGroup ==
    \A n \in 1..Len(store) :
        (\E m \in ModuleNames : store[n].dashboardId[m] # 0)
            => (store[n].folderId # 0 /\ store[n].groupId # 0)

\* C31: no two of the remote groups the service created carry one name:
\* there is at most one group Tenant_<t> per tenant t.  (The service starts
\* with no tenant group, so every group there is was created by it.)
C31_OneGroupPerTenant ==
    \A n \in 1..Len(groups) : \A m \in 1..Len(groups) :
        groups[n].name = groups[m].name => n = m

\* The tenant a remote group or collection was created for, as its name
\* says: what follows "Tenant_" or "Project ".
TenantOfName(name) == Tail(name)

\* Every "write" of the graph is of a group of a tenant on a collection of
\* the same tenant.
Isolated(graph) ==
    \A e \in graph.perms :
        e.perm = "write"
            => \E g \in 1..Len(groups) : \E c \in 1..Len(collections) :
                  /\ groups[g].id = e.g /\ collections[c].id = e.c
                  /\ TenantOfName(groups[g].name) = TenantOfName(collections[c].name)

\* C32: the collection permission graph of the remote service, and every
\* graph a request holds to write, gives a tenant's group "write" only on
\* collections created for that tenant.
C32_FolderAccessIsolated ==
    /\ Isolated(collGraph)
    /\ \A p \in Procs : Isolated(loc[p].cgraph)

\* Two tenants are provisioned and the graph holds the grant of each.
C32_Witness ==
    /\ Done(1) /\ Done(2) /\ Succeeded(1) /\ Succeeded(2)
    /\ loc[1].pid # loc[2].pid
    /\ Cardinality({e \in collGraph.perms : e.perm = "write"}) = 2
    /\ Cardinality({e.g : e \in {f \in collGraph.perms : f.perm = "write"}}) = 2

\* Group resolution of request p has returned: the collection is next.
GroupReturned(p) == pc[p] = "createCollection" /\ loc[p].groupId # 0

\* C33: when group resolution has returned a group id, and the template
\* group has sandbox rules and an entry in the permission graph, the group
\* returned has one sandbox rule per rule of the template group.
C33_RulesAfterGroupResolution ==
    \A p \in Procs :
        (/\ GroupReturned(p)
         /\ RulesOf(TEMPLATE_GROUP_ID) # {}
         /\ dataGraph[TEMPLATE_GROUP_ID] # 0)
        => /\ Cardinality(RulesOf(loc[p].groupId))
                 = Cardinality(RulesOf(TEMPLATE_GROUP_ID))
           /\ {RuleBody(r) : r \in RulesOf(loc[p].groupId)}
                 = {RuleBody(r) : r \in RulesOf(TEMPLATE_GROUP_ID)}

\* The part-way case: request p deleted the rule its group had and lost the
\* creation; group resolution returned and the group has no rule.
RulesLostPartWay ==
    \E p \in Procs :
        /\ GroupReturned(p)
        /\ calls[p]["deleteGtap"] = 1 /\ calls[p]["createGtap"] = 1
        /\ seen[p].rules # {}
        /\ RulesOf(loc[p].groupId) = {}

====
